---- MODULE Spec2Model ----
(***************************************************************************)
(* Model of rac_signal_source_symbol_tracer.py: an lldb synthetic child    *)
(* provider for RACPassthroughSubscriber.  The provider presents one       *)
(* synthesized child, "signalSourceSymbol", in front of the children of    *)
(* the inspected value object.                                             *)
(*                                                                         *)
(* The host debugger is the environment: it selects frames, lets the       *)
(* process run, hands out value objects and calls the provider's methods   *)
(* one at a time.  Every Python method is an operator that returns the     *)
(* instance after the call, the returned object (or the exception raised), *)
(* the call it made on the underlying value object and what it printed.    *)
(***************************************************************************)
EXTENDS Integers, Sequences, FiniteSets, TLC

\* ------------------------------------------------------------ bounds
NumFrames == 2
MaxChildren == 2
MaxEpoch == 1

Frames == 1..NumFrames

\* ------------------------------------------------------------ constants
SIGNAL_SOURCE_SYMBOL_CHILD_NAME == "signalSourceSymbol"
TypeName == "RACPassthroughSubscriber"
ClassName == "rac_signal_source_symbol_tracer.RACSignalSourceSymbolTracer"

\* Names the underlying object's children may carry, and the names the host
\* may look up ("zz" is a child of nothing).
ChildNames == {"a", "b", SIGNAL_SOURCE_SYMBOL_CHILD_NAME}
LookupNames == ChildNames \cup {"zz"}
ValobjNames == {"subscriber"}
Indices == 0..(MaxChildren + 1)

RECURSIVE SeqsUpTo(_, _)
SeqsUpTo(S, n) ==
  IF n = 0 THEN {<<>>}
  ELSE LET shorter == SeqsUpTo(S, n - 1)
       IN shorter \cup {Append(s, x) : s \in {t \in shorter : Len(t) = n - 1}, x \in S}

ChildLists == SeqsUpTo(ChildNames, MaxChildren)

\* ------------------------------------------------------------ Python objects
\* t: Python type ("raise" marks a raised exception, k its class);
\* k: kind of SBValue; i: integer payload / child position; s: name;
\* f, e: frame and process epoch an expression was evaluated in; x: expression.
Obj(t, k, i, s, f, e, x) == [t |-> t, k |-> k, i |-> i, s |-> s, f |-> f, e |-> e, x |-> x]
PyNone == Obj("NoneType", "", 0, "", 0, 0, <<>>)
PyInt(n) == Obj("int", "", n, "", 0, 0, <<>>)
PyTrue == Obj("bool", "", 1, "", 0, 0, <<>>)
Raise(cls) == Obj("raise", cls, 0, "", 0, 0, <<>>)
InvalidSBValue == Obj("SBValue", "invalid", 0, "", 0, 0, <<>>)
ChildSBValue(pos, name) == Obj("SBValue", "child", pos, name, 0, 0, <<>>)

\* x + n as Python computes it: int + int is an int; SBValue has no
\* __add__ and int has no __radd__ for it, so the sum raises TypeError.
PyAdd(x, n) == IF x.t = "int" THEN PyInt(x.i + n) ELSE Raise("TypeError")

\* "(NSString *)[%s signalInitializationSourceSymbol]" % name
FormatExpression(name) == <<"(NSString *)[", name, " signalInitializationSourceSymbol]">>
Expressions == {FormatExpression(n) : n \in ValobjNames}

\* ------------------------------------------------------------ lldb API used
NoValobj == [name |-> "", frame |-> 0]

\* The frame's evaluation of an expression: a result value or an error value.
EvaluateExpression(frame, epoch, name, expression, ok) ==
  Obj("SBValue", IF ok THEN "result" ELSE "error", 0, name, frame, epoch, expression)

\* SBValue.CreateValueFromExpression evaluates in the execution context the
\* value object itself carries, and always returns an SBValue.
CreateValueFromExpression(vo, epoch, name, expression, ok) ==
  EvaluateExpression(vo.frame, epoch, name, expression, ok)

GetName(vo) == vo.name
GetNumChildren(kids) == PyInt(Len(kids))

GetChildAtIndex(kids, idx) ==
  IF idx >= 0 /\ idx < Len(kids) THEN ChildSBValue(idx, kids[idx + 1]) ELSE InvalidSBValue

\* SBValue.GetChildMemberWithName returns the child value, not its position.
GetChildMemberWithName(kids, name) ==
  IF \E p \in 1..Len(kids) : kids[p] = name
  THEN LET p == CHOOSE q \in 1..Len(kids) :
                  kids[q] = name /\ \A r \in 1..(q - 1) : kids[r] # name
       IN ChildSBValue(p - 1, name)
  ELSE InvalidSBValue

\* str(value.GetError())
GetError(value) == IF value.k = "error" THEN "error: expression failed" ELSE "success"

\* ------------------------------------------------------------ the provider
NoInstance == [valobj |-> NoValobj, signalSourceMethodSymbol |-> PyNone]
NoDelegate == [api |-> "none", result |-> PyNone]
Delegate(api, result) == [api |-> api, result |-> result]
Result(inst, ret, delegated, out) ==
  [self |-> inst, ret |-> ret, delegated |-> delegated, out |-> out]

VARIABLES
  registry,       \* the host's synthetic-provider table: type name -> class
  selectedFrame,  \* the host's selected frame (of the selected thread/process)
  epoch,          \* how often the process has run since the session began
  children,       \* the underlying object's current child names, in order
  handle,         \* the value object the host currently shows
  self,           \* the provider instance (NoInstance before construction)
  refreshed,      \* update() was called on the instance
  call,           \* the last operation the host invoked, with its inputs
  ret,            \* what it returned (or raised)
  delegated,      \* the call it made on the underlying value object
  out             \* what it printed

vars == <<registry, selectedFrame, epoch, children, handle, self, refreshed,
          call, ret, delegated, out>>

NoCall == [op |-> "host", name |-> "", index |-> 0, ok |-> TRUE, selected |-> 0]
Call(op, name, index, ok) ==
  [op |-> op, name |-> name, index |-> index, ok |-> ok, selected |-> selectedFrame]

\* def evaluateExpressionValue(expression, printErrors = True)
evaluateExpressionValue(expression, printErrors, selected, ep, ok) ==
  LET frame == selected
      value == EvaluateExpression(frame, ep, "", expression, ok)
  IN Result(self, value, Delegate("EvaluateExpression", value),
            IF printErrors /\ GetError(value) # "success" THEN <<GetError(value)>> ELSE <<>>)

__init___raises(vo, ep, ok) ==
  LET v == CreateValueFromExpression(vo, ep, SIGNAL_SOURCE_SYMBOL_CHILD_NAME,
                                     FormatExpression(GetName(vo)), ok)
  IN IF v.k = "error"
     THEN Result(NoInstance, Raise("RuntimeError"), Delegate("CreateValueFromExpression", v), <<>>)
     ELSE Result([valobj |-> vo, signalSourceMethodSymbol |-> v], PyNone,
                 Delegate("CreateValueFromExpression", v), <<>>)

\* def __init__(self, valobj, dict)
__init__(vo, ep, ok) ==
  LET v == CreateValueFromExpression(vo, ep, SIGNAL_SOURCE_SYMBOL_CHILD_NAME,
                                     FormatExpression(GetName(vo)), ok)
  IN Result([valobj |-> vo, signalSourceMethodSymbol |-> v], PyNone,
            Delegate("CreateValueFromExpression", v), <<>>)

num_children_unshifted(inst, kids) ==
  LET n == GetNumChildren(kids) IN Result(inst, n, Delegate("GetNumChildren", n), <<>>)

\* def num_children(self)
num_children(inst, kids) ==
  LET n == GetNumChildren(kids)
  IN Result(inst, PyAdd(n, 1), Delegate("GetNumChildren", n), <<>>)

get_child_index_delegates(inst, kids, name) ==
  LET v == GetChildMemberWithName(kids, name)
  IN Result(inst, PyAdd(v, 1), Delegate("GetChildMemberWithName", v), <<>>)

\* def get_child_index(self, name)
get_child_index(inst, kids, name) ==
  IF name = SIGNAL_SOURCE_SYMBOL_CHILD_NAME
  THEN Result(inst, PyInt(0), NoDelegate, <<>>)
  ELSE LET v == GetChildMemberWithName(kids, name)
       IN Result(inst, PyAdd(v, 1), Delegate("GetChildMemberWithName", v), <<>>)

get_child_at_index_unshifted(inst, kids, index) ==
  LET v == GetChildAtIndex(kids, index)
  IN Result(inst, v, Delegate("GetChildAtIndex", v), <<>>)

\* def get_child_at_index(self, index)
get_child_at_index(inst, kids, index) ==
  IF index = 0
  THEN Result(inst, inst.signalSourceMethodSymbol, NoDelegate, <<>>)
  ELSE LET v == GetChildAtIndex(kids, index - 1)
       IN Result(inst, v, Delegate("GetChildAtIndex", v), <<>>)

update_recomputes(inst, ep) ==
  Result([inst EXCEPT !.signalSourceMethodSymbol =
            CreateValueFromExpression(inst.valobj, ep, SIGNAL_SOURCE_SYMBOL_CHILD_NAME,
                                      FormatExpression(GetName(inst.valobj)), TRUE)],
         PyNone, NoDelegate, <<>>)

\* def update(self)
update(inst, ep) == Result(inst, PyNone, NoDelegate, <<>>)

\* def has_children(self)
has_children(inst) == Result(inst, PyTrue, NoDelegate, <<>>)

\* ------------------------------------------------------------ state machine
Init ==
  /\ registry = {}
  /\ selectedFrame = 1
  /\ epoch = 0
  /\ children \in ChildLists
  /\ handle = NoValobj
  /\ self = NoInstance
  /\ refreshed = FALSE
  /\ call = NoCall
  /\ ret = PyNone
  /\ delegated = NoDelegate
  /\ out = <<>>

Idle == /\ call' = NoCall /\ ret' = PyNone /\ delegated' = NoDelegate /\ out' = <<>>

Apply(c, r) == /\ call' = c /\ self' = r.self /\ ret' = r.ret
               /\ delegated' = r.delegated /\ out' = r.out

\* def __lldb_init_module(debugger, dict): type synthetic add
LldbInitModule ==
  /\ registry = {}
  /\ registry' = {<<TypeName, ClassName>>}
  /\ Idle
  /\ UNCHANGED <<selectedFrame, epoch, children, handle, self, refreshed>>

\* The host selects another frame.
SelectFrame ==
  \E f \in Frames \ {selectedFrame} :
    /\ selectedFrame' = f
    /\ Idle
    /\ UNCHANGED <<registry, epoch, children, handle, self, refreshed>>

\* The process runs and stops again; the inspected object may look different.
ProcessRuns ==
  /\ epoch < MaxEpoch
  /\ epoch' = epoch + 1
  /\ children' \in ChildLists
  /\ Idle
  /\ UNCHANGED <<registry, selectedFrame, handle, self, refreshed>>

\* The host produces a value object for the subscriber; the value object
\* carries the frame that was selected when it was made.
MakeHandle ==
  \E n \in ValobjNames :
    /\ handle' = [name |-> n, frame |-> selectedFrame]
    /\ handle' # handle
    /\ Idle
    /\ UNCHANGED <<registry, selectedFrame, epoch, children, self, refreshed>>

EvaluateExpressionValue ==
  \E expression \in Expressions, printErrors \in BOOLEAN, ok \in BOOLEAN :
    /\ registry # {}
    /\ Apply(Call("evaluateExpressionValue", "", 0, ok),
             evaluateExpressionValue(expression, printErrors, selectedFrame, epoch, ok))
    /\ UNCHANGED <<registry, selectedFrame, epoch, children, handle, refreshed>>

Construct ==
  \E ok \in BOOLEAN :
    /\ <<TypeName, ClassName>> \in registry
    /\ handle # NoValobj
    /\ Apply(Call("__init__", "", 0, ok), __init__(handle, epoch, ok))
    /\ refreshed' = FALSE
    /\ UNCHANGED <<registry, selectedFrame, epoch, children, handle>>

NumChildren ==
  /\ self # NoInstance
  /\ Apply(Call("num_children", "", 0, TRUE), num_children(self, children))
  /\ UNCHANGED <<registry, selectedFrame, epoch, children, handle, refreshed>>

GetChildIndex ==
  \E name \in LookupNames :
    /\ self # NoInstance
    /\ Apply(Call("get_child_index", name, 0, TRUE), get_child_index(self, children, name))
    /\ UNCHANGED <<registry, selectedFrame, epoch, children, handle, refreshed>>

GetChildAtIndexCall ==
  \E index \in Indices :
    /\ self # NoInstance
    /\ Apply(Call("get_child_at_index", "", index, TRUE),
             get_child_at_index(self, children, index))
    /\ UNCHANGED <<registry, selectedFrame, epoch, children, handle, refreshed>>

Update ==
  /\ self # NoInstance
  /\ Apply(Call("update", "", 0, TRUE), update(self, epoch))
  /\ refreshed' = TRUE
  /\ UNCHANGED <<registry, selectedFrame, epoch, children, handle>>

HasChildren ==
  /\ self # NoInstance
  /\ Apply(Call("has_children", "", 0, TRUE), has_children(self))
  /\ UNCHANGED <<registry, selectedFrame, epoch, children, handle, refreshed>>

Next ==
  \/ LldbInitModule
  \/ SelectFrame
  \/ ProcessRuns
  \/ MakeHandle
  \/ EvaluateExpressionValue
  \/ Construct
  \/ NumChildren
  \/ GetChildIndex
  \/ GetChildAtIndexCall
  \/ Update
  \/ HasChildren

Spec == Init /\ [][Next]_vars

TypeOK ==
  /\ selectedFrame \in Frames
  /\ epoch \in 0..MaxEpoch
  /\ children \in ChildLists
  /\ refreshed \in BOOLEAN
  /\ ret.t \in {"NoneType", "int", "bool", "SBValue", "raise"}

\* ------------------------------------------------------------ claims
Instance == self # NoInstance
Symbol == self.signalSourceMethodSymbol
IsChild(name) == \E p \in 1..Len(children) : children[p] = name

\* The underlying object's own name-to-index lookup, as the claims refer to
\* it: the 0-based position of the first child carrying the name.
UnderlyingIndexOf(kids, name) ==
  (CHOOSE q \in 1..Len(kids) : kids[q] = name /\ \A r \in 1..(q - 1) : kids[r] # name) - 1

\* The name of the child presented at position i, and whether only one
\* presented child carries that name.
PresentedName(i) == get_child_at_index(self, children, i).ret.s
PresentedCount == num_children(self, children).ret.i
UniquelyPresented(n) ==
  Cardinality({j \in 0..(PresentedCount - 1) : PresentedName(j) = n}) = 1

\* C1: for a name n of one of the underlying object's children, other than
\* "signalSourceSymbol", get_child_index(n) returns the underlying object's
\* index of n plus 1.
C1_OtherNameIsUnderlyingIndexPlusOne ==
  (call.op = "get_child_index" /\ call.name # SIGNAL_SOURCE_SYMBOL_CHILD_NAME
     /\ IsChild(call.name))
  => ret = PyInt(UnderlyingIndexOf(children, call.name) + 1)

\* C2: a construction whose expression evaluation yields an error value
\* prints exactly one diagnostic before it completes.
C2_FailedEvaluationIsPrinted ==
  (call.op = "__init__" /\ Instance /\ Symbol.k = "error") => Len(out) = 1

\* C3: the expression of a construction is evaluated in the frame that is
\* selected at the moment of the construction.
C3_ConstructEvaluatesInSelectedFrame ==
  (call.op = "__init__" /\ Instance) => Symbol.f = call.selected

\* C4: for a name that is neither "signalSourceSymbol" nor a child of the
\* underlying object, get_child_index returns exactly what the underlying
\* lookup produced, raising nothing of its own.
C4_UnknownNamePassesThrough ==
  (call.op = "get_child_index" /\ call.name # SIGNAL_SOURCE_SYMBOL_CHILD_NAME
     /\ ~IsChild(call.name))
  => (ret.t # "raise" /\ ret = delegated.result)

C6_SynthesizedFirstThenUnderlying ==
  call.op = "get_child_at_index"
  => /\ (call.index = 0
           => (ret = Symbol /\ ret.s = SIGNAL_SOURCE_SYMBOL_CHILD_NAME))
     /\ (call.index \in 1..(PresentedCount - 1)
           => ret = ChildSBValue(call.index - 1, children[call.index]))

C6_Witness ==
  /\ call.op = "get_child_at_index" /\ call.index = 2
  /\ children = <<"a", "b">>
  /\ ret = ChildSBValue(1, "b")

\* C7: no step on an existing instance (update, any accessor, a frame change
\* or a run of the process) changes what get_child_at_index(0) returns; only
\* the construction of a new instance does.
C7_RefreshKeepsChildZero ==
  [][(Instance /\ call'.op # "__init__")
       => get_child_at_index(self', children', 0).ret
            = get_child_at_index(self, children, 0).ret]_vars

C7_Witness ==
  /\ call.op = "get_child_at_index" /\ call.index = 0
  /\ refreshed
  /\ epoch > ret.e
  /\ ret = Symbol

\* C8: num_children returns the underlying object's current child count
\* plus 1, hence at least 1, and has_children returns True.
C8_CountIsUnderlyingPlusOne ==
  /\ (call.op = "num_children"
        => (ret = PyInt(Len(children) + 1) /\ ret.i >= 1
            /\ ret.i = delegated.result.i + 1))
  /\ (call.op = "has_children" => ret = PyTrue)

C8_Witness ==
  /\ call.op = "num_children"
  /\ Len(children) = 2 /\ ret = PyInt(3)
  /\ epoch > Symbol.e

\* C9: get_child_index("signalSourceSymbol") returns 0 and makes no call on
\* the underlying object, also when the underlying object has a child of
\* that name.
C9_SynthesizedNameIsZero ==
  (call.op = "get_child_index" /\ call.name = SIGNAL_SOURCE_SYMBOL_CHILD_NAME)
  => (ret = PyInt(0) /\ delegated = NoDelegate)

C9_Witness ==
  /\ call.op = "get_child_index" /\ call.name = SIGNAL_SOURCE_SYMBOL_CHILD_NAME
  /\ IsChild(SIGNAL_SOURCE_SYMBOL_CHILD_NAME)
  /\ ret = PyInt(0)

\* C10: for every position i of the presented children whose name n is
\* unique among them, get_child_index(n) returns i and
\* get_child_at_index(get_child_index(n)) is the child named n.
C10_NameIndexRoundTrip ==
  call.op = "get_child_index"
  => \A i \in 0..(PresentedCount - 1) :
       (PresentedName(i) = call.name /\ UniquelyPresented(call.name))
       => /\ ret = PyInt(i)
          /\ get_child_at_index(self, children, ret.i).ret.s = call.name
====
